---------------------------- MODULE Spec2Model ----------------------------
(***************************************************************************)
(* Model of Scripts/analyse_includes.py: the header-include resolver.      *)
(*                                                                         *)
(* Strings are TLA+ strings, handled character by character with Len,      *)
(* SubSeq and \o, so that endswith, removeprefix, lstrip, pathlib's        *)
(* joining/normalisation and os.path.commonpath are computed as            *)
(* Python computes them on the text of the paths.                          *)
(***************************************************************************)
EXTENDS Integers, Sequences, FiniteSets, Bags, TLC

(***************************************************************************)
(* Python str methods                                                      *)
(***************************************************************************)

\* str.startswith
StartsWith(s, p) == Len(s) >= Len(p) /\ SubSeq(s, 1, Len(p)) = p

\* str.endswith
EndsWith(s, x) == Len(s) >= Len(x) /\ SubSeq(s, Len(s) - Len(x) + 1, Len(s)) = x

\* str.removeprefix
RemovePrefix(s, p) == IF StartsWith(s, p) THEN SubSeq(s, Len(p) + 1, Len(s)) ELSE s

\* str.lstrip(chars): drop every leading character that is in chars
RECURSIVE LStrip(_, _)
LStrip(s, chars) ==
    IF Len(s) > 0 /\ SubSeq(s, 1, 1) \in chars
    THEN LStrip(SubSeq(s, 2, Len(s)), chars)
    ELSE s

\* position of the first "/" of s at or after i, or Len(s) + 1
RECURSIVE NextSlash(_, _)
NextSlash(s, i) ==
    IF i > Len(s) THEN Len(s) + 1
    ELSE IF SubSeq(s, i, i) = "/" THEN i
    ELSE NextSlash(s, i + 1)

\* str.split("/")
RECURSIVE Split(_)
Split(s) ==
    LET j == NextSlash(s, 1) IN
    IF j > Len(s) THEN <<s>>
    ELSE <<SubSeq(s, 1, j - 1)>> \o Split(SubSeq(s, j + 1, Len(s)))

\* "/".join(parts)
RECURSIVE Join(_)
Join(parts) ==
    IF Len(parts) = 0 THEN ""
    ELSE IF Len(parts) = 1 THEN parts[1]
    ELSE parts[1] \o "/" \o Join(Tail(parts))

\* the set of elements of a sequence
Range(seq) == {seq[i] : i \in 1..Len(seq)}

(***************************************************************************)
(* pathlib.PurePosixPath, as the text str(path) of the normalised path     *)
(***************************************************************************)

\* a path component that pathlib keeps: not empty and not "."
KeptPart(c) == c # "" /\ c # "."

\* the components pathlib keeps, in order
RECURSIVE KeptParts(_)
KeptParts(seq) ==
    IF Len(seq) = 0 THEN <<>>
    ELSE (IF KeptPart(seq[1]) THEN <<seq[1]>> ELSE <<>>) \o KeptParts(Tail(seq))

\* Path(s): collapse repeated "/" and drop "." components; ".." is kept
PathOf(s) ==
    LET parts == KeptParts(Split(s)) IN
    IF StartsWith(s, "/") THEN "/" \o Join(parts)
    ELSE IF Len(parts) = 0 THEN "."
    ELSE Join(parts)

\* the components of a normalised path (without the root)
PartsOf(p) == KeptParts(Split(p))

\* Path.is_absolute
IsAbsolute(p) == StartsWith(p, "/")

\* path / s
PathJoin(p, s) == IF StartsWith(s, "/") THEN PathOf(s) ELSE PathOf(p \o "/" \o s)

\* Path.parent
Parent(p) ==
    LET parts == PartsOf(p) IN
    IF Len(parts) = 0 THEN p
    ELSE LET up == SubSeq(parts, 1, Len(parts) - 1) IN
         IF IsAbsolute(p) THEN "/" \o Join(up)
         ELSE IF Len(up) = 0 THEN "."
         ELSE Join(up)

\* Path.parents: the parent, its parent, ... up to the root or "."
RECURSIVE Parents(_)
Parents(p) ==
    IF Len(PartsOf(p)) = 0 THEN <<>>
    ELSE <<Parent(p)>> \o Parents(Parent(p))

\* Path.name
Name(p) == LET parts == PartsOf(p) IN IF Len(parts) = 0 THEN "" ELSE parts[Len(parts)]

\* collapse ".." components against the components before them
RECURSIVE Collapse(_, _)
Collapse(done, todo) ==
    IF Len(todo) = 0 THEN done
    ELSE IF todo[1] = ".."
         THEN Collapse(IF Len(done) = 0 THEN done ELSE SubSeq(done, 1, Len(done) - 1),
                       Tail(todo))
         ELSE Collapse(Append(done, todo[1]), Tail(todo))

\* Path.resolve() in a tree without symbolic links, run from directory cwd
Resolve(p, cwd) ==
    LET abs == IF IsAbsolute(p) THEN p ELSE PathJoin(cwd, p) IN
    "/" \o Join(Collapse(<<>>, PartsOf(abs)))

\* the longest common prefix of two sequences
RECURSIVE CommonPrefix(_, _)
CommonPrefix(a, b) ==
    IF Len(a) = 0 \/ Len(b) = 0 \/ a[1] # b[1] THEN <<>>
    ELSE <<a[1]>> \o CommonPrefix(Tail(a), Tail(b))

\* os.path.commonpath((a, b)) for two paths that are both relative or both absolute
CommonPath(a, b) ==
    (IF IsAbsolute(a) THEN "/" ELSE "") \o Join(CommonPrefix(PartsOf(a), PartsOf(b)))


(***************************************************************************)
(* The registry: the dict headers_local, as the sequence of its            *)
(* (key, count) items in insertion order                                   *)
(***************************************************************************)

\* the keys of a dict, in insertion order
Keys(d) == [i \in 1..Len(d) |-> d[i].h]

\* key in dict
HasKey(d, k) == \E i \in 1..Len(d) : d[i].h = k

\* dict[key]
Count(d, k) == d[CHOOSE i \in 1..Len(d) : d[i].h = k].n

\* a slip of Incr: the count is taken down instead of up
Decr(d, k) == [i \in 1..Len(d) |-> IF d[i].h = k THEN [h |-> k, n |-> d[i].n - 1] ELSE d[i]]

\* dict[key] += 1 for a key of the dict
Incr(d, k) == [i \in 1..Len(d) |-> IF d[i].h = k THEN [h |-> k, n |-> d[i].n + 1] ELSE d[i]]

\* dict.fromkeys(keys, 0): a key given twice is kept once, at its first place
RECURSIVE FromKeys(_)
FromKeys(keys) ==
    IF Len(keys) = 0 THEN <<>>
    ELSE LET front == FromKeys(SubSeq(keys, 1, Len(keys) - 1))
             k == keys[Len(keys)]
         IN IF HasKey(front, k) THEN front ELSE Append(front, [h |-> k, n |-> 0])

(***************************************************************************)
(* Diagnostics                                                             *)
(***************************************************************************)

\* the verbose flag, set once in __init__
verbose == TRUE

\* str(list) of a list of strings
RECURSIVE ReprItems(_)
ReprItems(l) ==
    IF Len(l) = 0 THEN ""
    ELSE IF Len(l) = 1 THEN "'" \o l[1] \o "'"
    ELSE "'" \o l[1] \o "', " \o ReprItems(Tail(l))

ListRepr(l) == "[" \o ReprItems(l) \o "]"

\* the lines printed only when verbose
IfVerbose(lines) == IF verbose THEN lines ELSE <<>>

\* the line carries the category tag: it ends with " [tag]", or with " [tag" when the
\* closing bracket is missing
HasTag(line, tag) == EndsWith(line, " [" \o tag \o "]") \/ EndsWith(line, " [" \o tag)

\* position of the first occurrence of sub in s at or after i, or 0
RECURSIVE Find(_, _, _)
Find(s, sub, i) ==
    IF i + Len(sub) - 1 > Len(s) THEN 0
    ELSE IF SubSeq(s, i, i + Len(sub) - 1) = sub THEN i
    ELSE Find(s, sub, i + 1)

\* the header a resolution line names as the one resolved to: the word after " to ",
\* or the include text itself on a valid-absolute-path line
NamedTarget(line, hdr) ==
    IF HasTag(line, "ok-absolute") THEN hdr
    ELSE LET from == Find(line, " to ", 1) + Len(" to ")
             until == Find(line, " ", from)
         IN SubSeq(line, from, until - 1)

(***************************************************************************)
(* Resolver.__process_include, as the result of one call:                  *)
(*   out      the lines printed, in order                                  *)
(*   incr     the keys on which headers_local[key] += 1 is executed        *)
(*   is_local, is_found   the fields when the call returns                 *)
(***************************************************************************)

\* a slip of Result: the directive is marked found whatever the outcome
ResultFound(lines, keys, loc, found) ==
    [out |-> lines, incr |-> keys, is_local |-> loc, is_found |-> TRUE]

Result(lines, keys, loc, found) ==
    [out |-> lines, incr |-> keys, is_local |-> loc, is_found |-> found]

\* The project base: base.arg is the command-line argument, base.cwd the directory
\* the tool is run from.  self.path_dir_base
path_dir_base(base) == PathOf(base.arg) \o "/"

\* self.path_dir_base_absolute
path_dir_base_absolute(base) == Resolve(PathOf(base.arg), base.cwd) \o "/"

\* candidates_h_local: the keys that end with "/" + header_stripped, in dict order
RECURSIVE Candidates(_, _)
Candidates(keys, header_stripped) ==
    IF Len(keys) = 0 THEN <<>>
    ELSE (IF EndsWith(keys[1], "/" \o header_stripped) THEN <<keys[1]>> ELSE <<>>)
         \o Candidates(Tail(keys), header_stripped)

\* candidates_h_local_special: the candidates that end with "/include/" + header
RECURSIVE SpecialCandidates(_, _)
SpecialCandidates(cands, hdr) ==
    IF Len(cands) = 0 THEN <<>>
    ELSE (IF EndsWith(cands[1], "/include/" \o hdr) THEN <<cands[1]>> ELSE <<>>)
         \o SpecialCandidates(Tail(cands), hdr)

\* a slip of LocalPath: an include that is not explicitly relative is looked up from
\* the base directory, whatever the directory asked for
LocalPathBare(directory, hdr, explicit, base) ==
    IF explicit
    THEN RemovePrefix(Resolve(PathJoin(directory, hdr), base.cwd), path_dir_base_absolute(base))
    ELSE RemovePrefix(PathJoin(PathOf(base.arg), hdr), path_dir_base(base))

\* h_local of a header looked up from a directory: resolved and normalised when the
\* include is explicitly relative, joined as written otherwise
LocalPath(directory, hdr, explicit, base) ==
    IF explicit
    THEN RemovePrefix(Resolve(PathJoin(directory, hdr), base.cwd), path_dir_base_absolute(base))
    ELSE RemovePrefix(PathJoin(directory, hdr), path_dir_base(base))

\* directory == self.path_dir_base: a Path compared with a str is never equal
PathEqualsStr(directory, text) == FALSE

\* the loop over self.path.parent.parents: hit says whether a directory gave a
\* candidate, h_local is the last path the loop computed (h_prev if it computed none)
RECURSIVE AncestorScan(_, _, _, _, _, _)
AncestorScan(dirs, hdr, explicit, base, cands, h_prev) ==
    IF Len(dirs) = 0 THEN [hit |-> FALSE, h_local |-> h_prev]
    ELSE IF PathEqualsStr(dirs[1], path_dir_base(base)) THEN [hit |-> FALSE, h_local |-> h_prev]
    ELSE LET h_local == LocalPath(dirs[1], hdr, explicit, base) IN
         IF h_local \in Range(cands) THEN [hit |-> TRUE, h_local |-> h_local]
         ELSE AncestorScan(Tail(dirs), hdr, explicit, base, cands, h_local)

\* len_prefix_all: len(os.path.commonpath((candidate, path_local))) of each candidate
PrefixLengths(cands, p_local) == [i \in 1..Len(cands) |-> Len(CommonPath(cands[i], p_local))]

\* the loop that finds len_prefix_max and index_prefix_max (1-based here); the
\* maximum starts at 0 and moves only on a strictly longer prefix
RECURSIVE PrefixMax(_, _, _, _)
PrefixMax(lens, i, len_max, index_max) ==
    IF i > Len(lens) THEN [len |-> len_max, index |-> index_max]
    ELSE IF lens[i] > len_max THEN PrefixMax(lens, i + 1, lens[i], i)
    ELSE PrefixMax(lens, i + 1, len_max, index_max)

\* list.count
CountOf(lens, v) == Cardinality({i \in 1..Len(lens) : lens[i] = v})

\* a slip of MultipleCandidates: several longest prefixes of the same length are not
\* looked for, the first longest candidate is taken
MultipleCandidatesFirstBest(cands, p_local, loc, hdr) ==
    LET note == IfVerbose(<<loc \o ": Found multiple candidates for " \o hdr \o ": "
                            \o ListRepr(cands) \o " [multiple-candidates]">>)
        lens == PrefixLengths(cands, p_local)
        best == PrefixMax(lens, 1, 0, 1)
    IN IF best.len = 0
       THEN Result(note \o <<loc \o ": Ambiguous path " \o hdr \o " [ambiguous]">>,
                   <<>>, TRUE, FALSE)
       ELSE LET h_local == cands[best.index] IN
            Result(note
                   \o IfVerbose(<<loc \o ": Best candidate for " \o hdr \o ": " \o h_local
                                  \o " [best-candidate]">>)
                   \o <<loc \o ": Incomplete absolute path " \o hdr \o " to " \o h_local
                         \o " [incomplete-absolute-path]">>,
                   <<h_local>>, TRUE, TRUE)

\* Handle multiple path candidates (n_candidates > 1)
MultipleCandidates(cands, p_local, loc, hdr) ==
    LET note == IfVerbose(<<loc \o ": Found multiple candidates for " \o hdr \o ": "
                            \o ListRepr(cands) \o " [multiple-candidates]">>)
        lens == PrefixLengths(cands, p_local)
        best == PrefixMax(lens, 1, 0, 1)
    IN IF best.len = 0 \/ CountOf(lens, best.len) > 1
       THEN Result(note \o <<loc \o ": Ambiguous path " \o hdr \o " [ambiguous]">>,
                   <<>>, TRUE, FALSE)
       ELSE LET h_local == cands[best.index] IN
            Result(note
                   \o IfVerbose(<<loc \o ": Best candidate for " \o hdr \o ": " \o h_local
                                  \o " [best-candidate]">>)
                   \o <<loc \o ": Incomplete absolute path " \o hdr \o " to " \o h_local
                         \o " [incomplete-absolute-path]">>,
                   <<h_local>>, TRUE, TRUE)

\* a slip of ResolveCandidates: the test for several candidates is n_candidates > 2
ResolveCandidatesAboveTwo(reg, cands, p, p_local, loc, hdr, explicit, base, pre) ==
    LET h_same == LocalPath(Parent(p), hdr, explicit, base)
        special == IF explicit THEN <<>> ELSE SpecialCandidates(cands, hdr)
        scan == AncestorScan(Parents(Parent(p)), hdr, explicit, base, cands, h_same)
    IN IF HasKey(reg, hdr)
       THEN Result(pre \o IfVerbose(<<loc \o ": Valid absolute path " \o hdr \o " [ok-absolute">>),
                   <<hdr>>, TRUE, TRUE)
       ELSE IF HasKey(reg, h_same)
       THEN Result(pre \o IfVerbose(<<loc \o ": Valid relative path " \o hdr \o " to "
                                      \o h_same \o " [ok-relative]">>),
                   <<h_same>>, TRUE, TRUE)
       ELSE IF Len(special) = 1
       THEN Result(pre \o IfVerbose(<<loc \o ": Valid relative path " \o hdr \o " to "
                                      \o special[1]
                                      \o " in a special directory [ok-special]">>),
                   <<special[1]>>, TRUE, TRUE)
       ELSE IF scan.hit
       THEN Result(pre \o <<loc \o ": Incomplete relative path " \o hdr \o " to "
                            \o scan.h_local \o " [incomplete-relative-path]">>,
                   <<scan.h_local>>, TRUE, TRUE)
       ELSE IF explicit
       THEN Result(pre \o <<loc \o ": Wrong relative path " \o hdr \o " to "
                            \o scan.h_local \o " [wrong-relative-path]">>,
                   <<>>, TRUE, FALSE)
       ELSE IF Len(cands) = 1
       THEN Result(pre \o <<loc \o ": Incomplete absolute path " \o hdr \o " to "
                            \o cands[1] \o " [incomplete-absolute-path]">>,
                   <<cands[1]>>, TRUE, TRUE)
       ELSE IF Len(cands) > 2
       THEN LET r == MultipleCandidates(cands, p_local, loc, hdr) IN
            Result(pre \o r.out, r.incr, r.is_local, r.is_found)
       ELSE Result(pre \o <<loc \o ": Unhandled case " \o hdr \o " [error-exception]">>,
                   <<>>, TRUE, FALSE)

\* the steps after the candidates were found to be non-empty (is_local is True)
ResolveCandidates(reg, cands, p, p_local, loc, hdr, explicit, base, pre) ==
    LET h_same == LocalPath(Parent(p), hdr, explicit, base)
        special == IF explicit THEN <<>> ELSE SpecialCandidates(cands, hdr)
        scan == AncestorScan(Parents(Parent(p)), hdr, explicit, base, cands, h_same)
    IN IF HasKey(reg, hdr)
       THEN Result(pre \o IfVerbose(<<loc \o ": Valid absolute path " \o hdr \o " [ok-absolute">>),
                   <<hdr>>, TRUE, TRUE)
       ELSE IF HasKey(reg, h_same)
       THEN Result(pre \o IfVerbose(<<loc \o ": Valid relative path " \o hdr \o " to "
                                      \o h_same \o " [ok-relative]">>),
                   <<h_same>>, TRUE, TRUE)
       ELSE IF Len(special) = 1
       THEN Result(pre \o IfVerbose(<<loc \o ": Valid relative path " \o hdr \o " to "
                                      \o special[1]
                                      \o " in a special directory [ok-special]">>),
                   <<special[1]>>, TRUE, TRUE)
       ELSE IF scan.hit
       THEN Result(pre \o <<loc \o ": Incomplete relative path " \o hdr \o " to "
                            \o scan.h_local \o " [incomplete-relative-path]">>,
                   <<scan.h_local>>, TRUE, TRUE)
       ELSE IF explicit
       THEN Result(pre \o <<loc \o ": Wrong relative path " \o hdr \o " to "
                            \o scan.h_local \o " [wrong-relative-path]">>,
                   <<>>, TRUE, FALSE)
       ELSE IF Len(cands) = 1
       THEN Result(pre \o <<loc \o ": Incomplete absolute path " \o hdr \o " to "
                            \o cands[1] \o " [incomplete-absolute-path]">>,
                   <<cands[1]>>, TRUE, TRUE)
       ELSE IF Len(cands) > 1
       THEN LET r == MultipleCandidates(cands, p_local, loc, hdr) IN
            Result(pre \o r.out, r.incr, r.is_local, r.is_found)
       ELSE Result(pre \o <<loc \o ": Unhandled case " \o hdr \o " [error-exception]">>,
                   <<>>, TRUE, FALSE)

\* __process_include on registry reg for the directive hdr at loc in file p; loc0 and
\* found0 are is_local and is_found when the call starts
ProcessIncludeResult(reg, p, p_local, loc, hdr, base, loc0, found0) ==
    LET explicit == StartsWith(hdr, ".")
        pre == IF explicit
               THEN <<loc \o ": Explicit relative path " \o hdr \o " [explicit-relative]">>
               ELSE <<>>
        header_stripped == IF explicit THEN LStrip(hdr, {".", "/"}) ELSE hdr
        cands == Candidates(Keys(reg), header_stripped)
    IN IF explicit /\ ~EndsWith(hdr, ".h")
       THEN Result(pre \o <<loc \o ": Not a header suffix in " \o hdr \o " [suspicious-suffix]">>,
                   <<>>, loc0, found0)
       ELSE IF Len(cands) = 0
       THEN IF explicit
            THEN Result(pre \o <<loc \o ": Failed to find " \o hdr \o " [not-found]">>,
                        <<>>, TRUE, found0)
            ELSE Result(IfVerbose(<<loc \o ": External header " \o hdr \o " [ok-external]">>),
                        <<>>, loc0, found0)
       ELSE ResolveCandidates(reg, cands, p, p_local, loc, hdr, explicit, base, pre)

\* a slip of CheckFormatLines: the style is not looked at for an external header
CheckFormatLinesAnyStyle(loc, hdr, sty, loc_is_local) ==
    IF loc_is_local /\ sty = "<"
    THEN <<loc \o ": Wrong include format for project header " \o hdr \o " [wrong-format-local]">>
    ELSE IF ~loc_is_local
    THEN <<loc \o ": Wrong include format for external header " \o hdr
            \o " [wrong-format-external]">>
    ELSE <<>>

\* __check_format: the lines it prints
CheckFormatLines(loc, hdr, sty, loc_is_local) ==
    IF loc_is_local /\ sty = "<"
    THEN <<loc \o ": Wrong include format for project header " \o hdr \o " [wrong-format-local]">>
    ELSE IF ~loc_is_local /\ sty = "\""
    THEN <<loc \o ": Wrong include format for external header " \o hdr
            \o " [wrong-format-external]">>
    ELSE <<>>


(***************************************************************************)
(* Order of strings and of paths                                           *)
(***************************************************************************)

\* the characters of the paths, in code-point order
CodePoints == "-./0123456789:ABCDEFGHIJKLMNOPQRSTUVWXYZ_abcdefghijklmnopqrstuvwxyz"

\* the place of a character in CodePoints
CodePoint(c) == CHOOSE i \in 1..Len(CodePoints) : SubSeq(CodePoints, i, i) = c

\* a < b for two str
RECURSIVE StrLess(_, _)
StrLess(a, b) ==
    IF Len(b) = 0 THEN FALSE
    ELSE IF Len(a) = 0 THEN TRUE
    ELSE IF SubSeq(a, 1, 1) # SubSeq(b, 1, 1)
         THEN CodePoint(SubSeq(a, 1, 1)) < CodePoint(SubSeq(b, 1, 1))
    ELSE StrLess(SubSeq(a, 2, Len(a)), SubSeq(b, 2, Len(b)))

\* a < b for two lists of str
RECURSIVE PartsLess(_, _)
PartsLess(a, b) ==
    IF Len(b) = 0 THEN FALSE
    ELSE IF Len(a) = 0 THEN TRUE
    ELSE IF a[1] # b[1] THEN StrLess(a[1], b[1])
    ELSE PartsLess(Tail(a), Tail(b))

\* a < b for two Path of the same tree: pathlib compares the components
PathLess(a, b) == PartsLess(PartsOf(a), PartsOf(b))

(***************************************************************************)
(* Resolver.run: which files it reads and which lines it takes             *)
(***************************************************************************)

\* re.search(r"^.+\.(h|cxx|cu|c|C)$", str(path))
MatchesSource(p) ==
    \E suffix \in {".h", ".cxx", ".cu", ".c", ".C"} :
        EndsWith(p, suffix) /\ Len(p) > Len(suffix)

\* position of the last character of s, at or before i, that is in chars; 0 if none
RECURSIVE LastOf(_, _, _)
LastOf(s, chars, i) ==
    IF i < 1 THEN 0
    ELSE IF SubSeq(s, i, i) \in chars THEN i
    ELSE LastOf(s, chars, i - 1)

\* re.match(r"#include ([\"<])(.+)[\">]", line): the greedy (.+) runs to the last
\* closing delimiter of the line.  <<style, header>>, or <<>> when there is no match
MatchInclude(line) ==
    LET start == Len("#include ") + 1
        close == LastOf(line, {"\"", ">"}, Len(line))
    IN IF /\ StartsWith(line, "#include ")
          /\ Len(line) > start
          /\ SubSeq(line, start, start) \in {"\"", "<"}
          /\ close >= start + 2
       THEN <<SubSeq(line, start, start), SubSeq(line, start + 1, close - 1)>>
       ELSE <<>>

\* the entries of the tree that rglob("*.h") yields: name ends with ".h"
HeaderFiles(files) == {f \in files : EndsWith(Name(f), ".h")}

\* the entries of the tree that rglob("*CMakeLists.txt") yields
CMakeFiles(files) == {f \in files : EndsWith(Name(f), "CMakeLists.txt")}

\* every order in which a directory scan can enumerate a set of entries
Orders(S) ==
    {o \in [1..Cardinality(S) -> S] : \A i, j \in 1..Cardinality(S) : i # j => o[i] # o[j]}

\* a slip of LocalHeaders: the LinkDef headers are not filtered out
RECURSIVE LocalHeadersAll(_, _)
LocalHeadersAll(scan, base) ==
    IF Len(scan) = 0 THEN <<>>
    ELSE <<RemovePrefix(PathJoin(PathOf(base.arg), scan[1]), path_dir_base(base))>>
         \o LocalHeadersAll(Tail(scan), base)

\* the list comprehension of __init__: the scanned paths, without the LinkDef
\* headers, each with the base prefix removed
RECURSIVE LocalHeaders(_, _)
LocalHeaders(scan, base) ==
    IF Len(scan) = 0 THEN <<>>
    ELSE (IF EndsWith(Name(scan[1]), "LinkDef.h") THEN <<>>
          ELSE <<RemovePrefix(PathJoin(PathOf(base.arg), scan[1]), path_dir_base(base))>>)
         \o LocalHeaders(Tail(scan), base)

\* self.headers_local as __init__ builds it from the enumeration scan of the tree
BuildRegistry(scan, base) == FromKeys(LocalHeaders(scan, base))

(***************************************************************************)
(* Inputs: the trees, files and lines the model is run on                  *)
(***************************************************************************)

\* most headers of a tree
MaxHeaders == 2

\* most lines read from one file
MaxLines == 1

\* most header names found in one line of a CMakeLists.txt
MaxTokens == 1

\* how the base directory is given: relative to the working directory or absolute
BaseDirs ==
    {[arg |-> ".", cwd |-> "/r/p"], [arg |-> "p", cwd |-> "/r"], [arg |-> "/r/p", cwd |-> "/r"]}

\* how the base directory of a whole run is given
RunBaseDirs == {[arg |-> "p", cwd |-> "/r"]}

Styles == {"\"", "<"}

\* #include <text> or #include "text"
IncludeLine(sty, text) == "#include " \o sty \o text \o (IF sty = "<" THEN ">" ELSE "\"")

\* headers of the trees one directive is resolved against
HeaderUniverse ==
    {"X.h", "A/X.h", "B/X.h", "A/S/X.h", "A/T/X.h", "A/include/X.h",
     "Header.h", "Module/Sub/Header.h"}

\* files holding the directive
IncludingFiles == {"Y.cxx", "A/Y.cxx", "A/S/Y.cxx", "B/Y.cxx", "Module/Sub/File.cxx"}

\* include texts
Texts == {"X.h", "A/X.h", "./X.h", "../X.h", "vector", "./vector", "Header.h"}

\* files of the trees a whole run is made on
RunFiles == {"A/X.h", "B/X.h", "A/XLinkDef.h", "A/Y.cxx", "CMakeLists.txt", "A/CMakeLists.txt"}

\* lines of the source files of a whole run
RunLines == {IncludeLine("\"", "X.h"), IncludeLine("<", "vector"), "int x;"}

\* header names matched in the lines of CMakeLists.txt files
Tokens == {"X.h", "./X.h", "A/X.h"}

(***************************************************************************)
(* State                                                                   *)
(***************************************************************************)

VARIABLES
    dir_base,         \* the base directory: [arg, cwd]
    tree,             \* the files under the base directory, relative to it
    headers_local,    \* the registry
    path,             \* self.path, as str(path)
    path_local,
    location,
    header,
    style,
    is_local,
    is_found,
    pc,               \* where run() is
    todo,             \* source files the loop of run() has not reached yet
    i_line,           \* lines read from the file that is open
    cmake_todo,       \* CMakeLists.txt files not scanned yet, sorted
    path_cmake_lists, \* the CMakeLists.txt that is open
    matches,          \* header names of the current CMakeLists.txt line, not handled yet
    i_unused,         \* items of headers_local that __check_unused has passed
    out,              \* lines printed for the directive, token or report in progress
    resolved          \* history: the bag of headers that directives and tokens resolved to

vars == <<dir_base, tree, headers_local, path, path_local, location, header, style,
          is_local, is_found, pc, todo, i_line, cmake_todo, path_cmake_lists, matches,
          i_unused, out, resolved>>

\* the registry as __init__ builds it, nothing scanned or printed yet
Constructed(b, files, scan) ==
    /\ dir_base = b
    /\ tree = files
    /\ headers_local = BuildRegistry(scan, b)
    /\ cmake_todo = <<>>
    /\ path_cmake_lists = "."
    /\ matches = <<>>
    /\ i_unused = 0
    /\ out = <<>>
    /\ resolved = EmptyBag

\* the source files of a tree: what the loop of run() does not skip
SourceFiles(b, files) == {f \in files : MatchesSource(PathJoin(PathOf(b.arg), f))}

\* run() is about to start on a tree
Init ==
    \E b \in RunBaseDirs, files \in SUBSET RunFiles :
      \E scan \in Orders(HeaderFiles(files)) :
        /\ Constructed(b, files, scan)
        /\ path = "."
        /\ path_local = ""
        /\ location = ""
        /\ header = ""
        /\ style = ""
        /\ is_local = FALSE
        /\ is_found = FALSE
        /\ todo = SourceFiles(b, files)
        /\ i_line = 0
        /\ pc = "walk"


(***************************************************************************)
(* Resolver.run                                                            *)
(***************************************************************************)

\* self.headers_local[key] += 1 for each key of keys, in order
RECURSIVE ApplyIncr(_, _)
ApplyIncr(d, keys) ==
    IF Len(keys) = 0 THEN d ELSE ApplyIncr(Incr(d, keys[1]), Tail(keys))

\* the loop of run() reaches the next source file (the entries that do not match the
\* pattern are passed over) and opens it
VisitFile(f) ==
    /\ pc = "walk"
    /\ f \in todo
    /\ todo' = todo \ {f}
    /\ path' = PathJoin(PathOf(dir_base.arg), f)
    /\ path_local' = RemovePrefix(path', path_dir_base(dir_base))
    /\ i_line' = 0
    /\ pc' = "lines"
    /\ UNCHANGED <<dir_base, tree, headers_local, location, header, style, is_local,
                   is_found, cmake_todo, path_cmake_lists, matches, i_unused, out, resolved>>

\* the next line of the open file: skipped unless it is an include directive, whose
\* fields are then set for __process_include
ReadLine(line) ==
    /\ pc = "lines"
    /\ i_line < MaxLines
    /\ i_line' = i_line + 1
    /\ LET m == MatchInclude(line) IN
       IF m = <<>>
       THEN UNCHANGED <<location, header, style, is_local, is_found, pc, out>>
       ELSE /\ location' = path \o ":" \o ToString(i_line + 1)
            /\ header' = m[2]
            /\ style' = m[1]
            /\ is_local' = FALSE
            /\ is_found' = FALSE
            /\ out' = <<>>
            /\ pc' = "process"
    /\ UNCHANGED <<dir_base, tree, headers_local, path, path_local, todo, cmake_todo,
                   path_cmake_lists, matches, i_unused, resolved>>

\* the open file has no more lines
EndOfFile ==
    /\ pc = "lines"
    /\ pc' = "walk"
    /\ UNCHANGED <<dir_base, tree, headers_local, path, path_local, location, header,
                   style, is_local, is_found, todo, i_line, cmake_todo, path_cmake_lists,
                   matches, i_unused, out, resolved>>

\* self.__process_include(); an increment of a key that the dict does not hold
\* raises KeyError and ends the run
ProcessInclude ==
    /\ pc = "process"
    /\ \E r \in {ProcessIncludeResult(headers_local, path, path_local, location, header,
                                      dir_base, is_local, is_found)} :
          /\ out' = r.out
          /\ IF \A i \in 1..Len(r.incr) : HasKey(headers_local, r.incr[i])
             THEN /\ headers_local' = ApplyIncr(headers_local, r.incr)
                  /\ is_local' = r.is_local
                  /\ is_found' = r.is_found
                  /\ pc' = "format"
             ELSE /\ pc' = "KeyError"
                  /\ UNCHANGED <<headers_local, is_local, is_found>>
          /\ resolved' = IF r.is_found
                         THEN resolved (+) SetToBag({NamedTarget(r.out[Len(r.out)], header)})
                         ELSE resolved
    /\ UNCHANGED <<dir_base, tree, path, path_local, location, header, style, todo,
                   i_line, cmake_todo, path_cmake_lists, matches, i_unused>>

\* a slip of CheckFormat: the style check is made for the found directives only
CheckFormatIfFound ==
    /\ pc = "format"
    /\ out' = IF is_found THEN out \o CheckFormatLines(location, header, style, is_local) ELSE out
    /\ pc' = "lines"
    /\ UNCHANGED <<dir_base, tree, headers_local, path, path_local, location, header,
                   style, is_local, is_found, todo, i_line, cmake_todo, path_cmake_lists,
                   matches, i_unused, resolved>>

\* self.__check_format()
CheckFormat ==
    /\ pc = "format"
    /\ out' = out \o CheckFormatLines(location, header, style, is_local)
    /\ pc' = "lines"
    /\ UNCHANGED <<dir_base, tree, headers_local, path, path_local, location, header,
                   style, is_local, is_found, todo, i_line, cmake_todo, path_cmake_lists,
                   matches, i_unused, resolved>>

\* sorted(paths)
SortedPaths(S) ==
    CHOOSE o \in Orders(S) : \A i, j \in 1..Cardinality(S) : i < j => PathLess(o[i], o[j])

\* a slip of StartCompiled: __check_compiled is called inside the loop of run()
StartCompiledEarly ==
    /\ pc = "walk"
    /\ cmake_todo' = SortedPaths({PathJoin(PathOf(dir_base.arg), f) : f \in CMakeFiles(tree)})
    /\ pc' = "compiled"
    /\ UNCHANGED <<dir_base, tree, headers_local, path, path_local, location, header,
                   style, is_local, is_found, todo, i_line, path_cmake_lists, matches,
                   i_unused, out, resolved>>

\* the loop of run() is over: __check_compiled starts on the sorted CMakeLists.txt
StartCompiled ==
    /\ pc = "walk"
    /\ todo = {}
    /\ cmake_todo' = SortedPaths({PathJoin(PathOf(dir_base.arg), f) : f \in CMakeFiles(tree)})
    /\ pc' = "compiled"
    /\ UNCHANGED <<dir_base, tree, headers_local, path, path_local, location, header,
                   style, is_local, is_found, todo, i_line, path_cmake_lists, matches,
                   i_unused, out, resolved, resolved>>

\* the next CMakeLists.txt is opened
CompiledFile ==
    /\ pc = "compiled"
    /\ cmake_todo # <<>>
    /\ path_cmake_lists' = Head(cmake_todo)
    /\ cmake_todo' = Tail(cmake_todo)
    /\ i_line' = 0
    /\ pc' = "cmake_lines"
    /\ UNCHANGED <<dir_base, tree, headers_local, path, path_local, location, header,
                   style, is_local, is_found, todo, matches, i_unused, out, resolved>>

\* every list of at most n header names
TokenLists(n) == UNION {[1..k -> Tokens] : k \in 0..n}

\* the next line of the CMakeLists.txt and the header names found in it
CompiledLine(found) ==
    /\ pc = "cmake_lines"
    /\ i_line < MaxLines
    /\ i_line' = i_line + 1
    /\ matches' = found
    /\ pc' = IF found = <<>> THEN "cmake_lines" ELSE "tokens"
    /\ UNCHANGED <<dir_base, tree, headers_local, path, path_local, location, header,
                   style, is_local, is_found, todo, cmake_todo, path_cmake_lists,
                   i_unused, out, resolved, resolved>>

\* a slip of CompiledLocalPath: a name that does not start with "." is looked up from
\* the base directory
CompiledLocalPathFromBase(cmake, token, base) ==
    IF StartsWith(token, ".")
    THEN RemovePrefix(Resolve(PathJoin(Parent(cmake), token), base.cwd),
                      path_dir_base_absolute(base))
    ELSE RemovePrefix(PathJoin(PathOf(base.arg), token), path_dir_base(base))

\* h_local of a header name found in a CMakeLists.txt
CompiledLocalPath(cmake, token, base) ==
    IF StartsWith(token, ".")
    THEN RemovePrefix(Resolve(PathJoin(Parent(cmake), token), base.cwd),
                      path_dir_base_absolute(base))
    ELSE RemovePrefix(PathJoin(Parent(cmake), token), path_dir_base(base))

\* one header name of the line: credited if it is a key of the registry
CompiledMatch ==
    /\ pc = "tokens"
    /\ header' = Head(matches)
    /\ matches' = Tail(matches)
    /\ pc' = IF Tail(matches) = <<>> THEN "cmake_lines" ELSE "tokens"
    /\ LET h_local == CompiledLocalPath(path_cmake_lists, Head(matches), dir_base) IN
       IF HasKey(headers_local, h_local)
       THEN /\ location' = path_cmake_lists \o ":" \o ToString(i_line)
            /\ out' = IfVerbose(<<location' \o ": Compiled header " \o header' \o " [compiled]">>)
            /\ headers_local' = Incr(headers_local, h_local)
            /\ resolved' = resolved (+) SetToBag({h_local})
       ELSE /\ out' = <<>>
            /\ UNCHANGED <<location, headers_local, resolved>>
    /\ UNCHANGED <<dir_base, tree, path, path_local, style, is_local, is_found, todo,
                   i_line, cmake_todo, path_cmake_lists, i_unused>>

\* the open CMakeLists.txt has no more lines
CompiledEndOfFile ==
    /\ pc = "cmake_lines"
    /\ pc' = "compiled"
    /\ UNCHANGED <<dir_base, tree, headers_local, path, path_local, location, header,
                   style, is_local, is_found, todo, i_line, cmake_todo, path_cmake_lists,
                   matches, i_unused, out, resolved>>

\* __check_compiled returns and __check_unused starts
StartUnused ==
    /\ pc = "compiled"
    /\ cmake_todo = <<>>
    /\ i_unused' = 0
    /\ out' = <<>>
    /\ pc' = "unused"
    /\ UNCHANGED <<dir_base, tree, headers_local, path, path_local, location, header,
                   style, is_local, is_found, todo, i_line, cmake_todo, path_cmake_lists,
                   matches, resolved>>

\* a slip of UnusedLines: the count is not looked at
UnusedLinesAll(item) == <<item.h \o ":0: Unused header [unused]">>

\* the line __check_unused prints for one item of the dict
UnusedLines(item) == IF item.n = 0 THEN <<item.h \o ":0: Unused header [unused]">> ELSE <<>>

\* __check_unused passes the next item of the dict
CheckUnused ==
    /\ pc = "unused"
    /\ i_unused < Len(headers_local)
    /\ i_unused' = i_unused + 1
    /\ out' = out \o UnusedLines(headers_local[i_unused + 1])
    /\ UNCHANGED <<dir_base, tree, headers_local, path, path_local, location, header,
                   style, is_local, is_found, pc, todo, i_line, cmake_todo,
                   path_cmake_lists, matches, resolved>>

\* run() returns
Finish ==
    /\ pc = "unused"
    /\ i_unused = Len(headers_local)
    /\ pc' = "done"
    /\ UNCHANGED <<dir_base, tree, headers_local, path, path_local, location, header,
                   style, is_local, is_found, todo, i_line, cmake_todo, path_cmake_lists,
                   matches, i_unused, out, resolved>>

Next ==
    \/ \E f \in RunFiles : VisitFile(f)
    \/ \E line \in RunLines : ReadLine(line)
    \/ EndOfFile
    \/ ProcessInclude
    \/ CheckFormat
    \/ StartCompiled
    \/ CompiledFile
    \/ \E found \in TokenLists(MaxTokens) : CompiledLine(found)
    \/ CompiledMatch
    \/ CompiledEndOfFile
    \/ StartUnused
    \/ CheckUnused
    \/ Finish

Spec == Init /\ [][Next]_vars


(***************************************************************************)
(* One directive: run() has opened a file of a tree and read an include    *)
(* directive on its first line                                             *)
(***************************************************************************)

\* the trees with at most n headers
HeaderSets(n) == {hs \in SUBSET HeaderUniverse : Cardinality(hs) <= n}

InitInclude ==
    \E b \in BaseDirs, hs \in HeaderSets(MaxHeaders) :
      \E scan \in Orders(hs), f \in IncludingFiles \cup hs, text \in Texts, sty \in Styles :
        LET m == MatchInclude(IncludeLine(sty, text)) IN
        /\ Constructed(b, hs \cup {f}, scan)
        /\ todo = SourceFiles(b, hs \cup {f}) \ {f}
        /\ path = PathJoin(PathOf(b.arg), f)
        /\ path_local = RemovePrefix(path, path_dir_base(b))
        /\ i_line = 1
        /\ location = path \o ":" \o ToString(1)
        /\ header = m[2]
        /\ style = m[1]
        /\ is_local = FALSE
        /\ is_found = FALSE
        /\ pc = "process"

NextInclude == ProcessInclude \/ CheckFormat

SpecInclude == InitInclude /\ [][NextInclude]_vars


(***************************************************************************)
(* Properties                                                              *)
(***************************************************************************)

\* the category tags of the diagnostics
Tags ==
    {"explicit-relative", "suspicious-suffix", "not-found", "ok-external", "ok-absolute",
     "ok-relative", "ok-special", "incomplete-relative-path", "wrong-relative-path",
     "incomplete-absolute-path", "multiple-candidates", "best-candidate", "ambiguous",
     "error-exception", "wrong-format-local", "wrong-format-external", "compiled", "unused"}

\* some line of lines carries the tag
AnyTagged(lines, tag) == \E i \in 1..Len(lines) : HasTag(lines[i], tag)

\* the last line of lines carries the tag
LastTagged(lines, tag) == Len(lines) > 0 /\ HasTag(lines[Len(lines)], tag)

\* the text is a non-empty run of digits
IsNumber(text) ==
    /\ Len(text) > 0
    /\ \A i \in 1..Len(text) : SubSeq(text, i, i) \in {"0", "1", "2", "3", "4", "5", "6", "7", "8", "9"}

\* the line has the shape <file>:<line>: <message> [<tag>]
WellFormed(line) ==
    /\ \E tag \in Tags : EndsWith(line, " [" \o tag \o "]")
    /\ LET colon == Find(line, ":", 1)
           after == Find(line, ": ", colon + 1)
       IN /\ colon > 1
          /\ after > colon + 1
          /\ IsNumber(SubSeq(line, colon + 1, after - 1))

\* the keys of the registry, as a set
KeySet == Range(Keys(headers_local))

\* the candidate set of the directive in hand
CandidateSet ==
    LET stripped == IF StartsWith(header, ".") THEN LStrip(header, {".", "/"}) ELSE header
    IN {h \in KeySet : EndsWith(h, "/" \o stripped)}

\* C1: an include whose text is exactly a registered path is resolved by the
\* exact-absolute-match rule: that entry is credited by 1, the directive is found and
\* the outcome is the valid-absolute-path one.
C1_ExactPathIsAbsoluteMatch ==
    [][(pc = "process" /\ HasKey(headers_local, header))
       => /\ headers_local' = Incr(headers_local, header)
          /\ is_found'
          /\ LastTagged(out', "ok-absolute")]_vars

\* the headers of the tree that belong in the registry
TreeHeaders == {f \in tree : EndsWith(f, ".h") /\ ~EndsWith(f, "LinkDef.h")}

\* C2: after run() the registry has exactly one entry per header of the tree that is
\* not a LinkDef header, and each count is the number of directives and CMakeLists
\* tokens that resolved to that header.
C2_RegistryAndCounts ==
    pc = "done" =>
        /\ KeySet = TreeHeaders
        /\ \A f \in TreeHeaders :
               Cardinality({i \in 1..Len(headers_local) : headers_local[i].h = f}) = 1
        /\ \A i \in 1..Len(headers_local) :
               headers_local[i].n = CopiesIn(headers_local[i].h, resolved)
        /\ BagToSet(resolved) \subseteq KeySet

\* a run on a tree with a LinkDef header, in which one header was resolved to twice
C2_Witness ==
    /\ pc = "done"
    /\ "A/XLinkDef.h" \in tree
    /\ \E i \in 1..Len(headers_local) : headers_local[i].n = 2

\* C3: the keys of the registry never change, no count is negative or ever goes
\* down, and no increment is made on a key the registry does not hold.
C3_KeysFixedCountsGrow ==
    [][/\ Keys(headers_local') = Keys(headers_local)
       /\ \A i \in 1..Len(headers_local) :
              /\ headers_local[i].n \in Nat
              /\ headers_local'[i].n \in Nat
              /\ headers_local'[i].n >= headers_local[i].n
       /\ pc' # "KeyError"]_vars

\* a finished run in which some header was credited
C3_Witness ==
    /\ pc = "done"
    /\ \E i \in 1..Len(headers_local) : headers_local[i].n > 0

\* C4: after the run every header with count 0 is in the unused report exactly once,
\* at line 0 with tag [unused], and no header with a count above 0 is in it.
C4_UnusedReport ==
    pc = "done" =>
        /\ \A i \in 1..Len(headers_local) :
               LET item == headers_local[i]
                   hits == {j \in 1..Len(out) : StartsWith(out[j], item.h \o ":")}
               IN IF item.n = 0
                  THEN /\ Cardinality(hits) = 1
                       /\ \A j \in hits : /\ StartsWith(out[j], item.h \o ":0: ")
                                          /\ EndsWith(out[j], " [unused]")
                  ELSE hits = {}
        /\ \A j \in 1..Len(out) : \E h \in KeySet : StartsWith(out[j], h \o ":")

\* a finished run with a used and an unused header
C4_Witness ==
    /\ pc = "done"
    /\ \E i, j \in 1..Len(headers_local) : headers_local[i].n = 0 /\ headers_local[j].n > 0
    /\ Len(out) = 1

\* run() is in __check_compiled
InCompiled == pc \in {"compiled", "cmake_lines", "tokens"}

\* run() is in __check_unused or has returned
InUnused == pc \in {"unused", "done"}

\* C5: the CMakeLists scan starts only when every source file has been walked, an
\* unused-report line is printed only when walk and scan are over, and no count
\* changes once the unused report has started.
C5_PhasesInOrder ==
    [][/\ (InCompiled' \/ InUnused') => (todo' = {} /\ pc # "lines")
       /\ InUnused' => (cmake_todo' = <<>> /\ matches' = <<>> /\ pc \in {"compiled", "unused"})
       /\ (out' # out /\ LastTagged(out', "unused")) => (pc = "unused" /\ todo = {} /\ cmake_todo = <<>>)
       /\ InUnused => (headers_local' = headers_local /\ InUnused')]_vars

\* a finished run that walked a file, scanned a CMakeLists.txt and reported a header
C5_Witness ==
    /\ pc = "done"
    /\ path # "."
    /\ path_cmake_lists # "."
    /\ Len(out) > 0
    /\ \E i \in 1..Len(headers_local) : headers_local[i].n > 0

\* len(os.path.commonpath) of a candidate with the including file
PrefixLen(h) == Len(CommonPath(h, path_local))

\* the longest common prefix of the candidates with the including file
MaxPrefixLen == CHOOSE m \in {PrefixLen(h) : h \in CandidateSet} \cup {0} :
                    \A h \in CandidateSet : PrefixLen(h) <= m

\* the longest common prefix is empty or shared by several candidates
ZeroOrTie ==
    \/ MaxPrefixLen = 0
    \/ Cardinality({h \in CandidateSet : PrefixLen(h) = MaxPrefixLen}) > 1

\* C6: when the multi-candidate disambiguation is reached and the longest common
\* prefix is empty or shared by two or more candidates, the outcome is the
\* ambiguous-path diagnostic, no count changes and the directive is not found.
C6_AmbiguousOnZeroOrTie ==
    [][(pc = "process" /\ AnyTagged(out', "multiple-candidates") /\ ZeroOrTie)
       => /\ LastTagged(out', "ambiguous")
          /\ headers_local' = headers_local
          /\ ~is_found']_vars

\* an ambiguous outcome among candidates that tie on a non-empty common prefix
C6_Witness ==
    /\ pc = "format"
    /\ LastTagged(out, "ambiguous")
    /\ Cardinality(CandidateSet) >= 2
    /\ MaxPrefixLen > 0

\* the example of C7: A/X.h and B/X.h registered, "X.h" included from A/Y.cxx
C7_Case == KeySet = {"A/X.h", "B/X.h"} /\ header = "X.h" /\ path_local = "A/Y.cxx"

\* C7 as stated: the include resolves to A/X.h with an incomplete-absolute-path
\* diagnostic and never an ambiguous one.
C7_Original ==
    [][(pc = "process" /\ C7_Case)
       => /\ headers_local' = Incr(headers_local, "A/X.h")
          /\ AnyTagged(out', "incomplete-absolute-path")
          /\ ~AnyTagged(out', "ambiguous")]_vars

\* C7 amended: the include resolves to A/X.h (credited by 1, B/X.h not) by the
\* same-directory match, with the valid-relative-path note, and with neither an
\* incomplete-absolute-path nor an ambiguous diagnostic.
C7_SameDirectoryWins ==
    [][(pc = "process" /\ C7_Case)
       => /\ headers_local' = Incr(headers_local, "A/X.h")
          /\ Count(headers_local', "B/X.h") = Count(headers_local, "B/X.h")
          /\ is_found'
          /\ LastTagged(out', "ok-relative")
          /\ ~AnyTagged(out', "incomplete-absolute-path")
          /\ ~AnyTagged(out', "ambiguous")]_vars

\* the directive of C7 has been resolved
C7_Witness ==
    /\ pc = "format"
    /\ C7_Case
    /\ Count(headers_local, "A/X.h") = 1
    /\ Count(headers_local, "B/X.h") = 0

\* the example of C8: Module/Sub/Header.h registered, "Header.h" included from
\* Module/Sub/File.cxx
C8_Case ==
    /\ HasKey(headers_local, "Module/Sub/Header.h")
    /\ header = "Header.h"
    /\ path_local = "Module/Sub/File.cxx"

\* C8 as stated: whatever else is registered, Module/Sub/Header.h is credited by 1 and
\* the resolution prints no line.
C8_Original ==
    [][(pc = "process" /\ C8_Case)
       => /\ headers_local' = Incr(headers_local, "Module/Sub/Header.h")
          /\ out' = <<>>]_vars

\* C8 amended: when Header.h is not itself a registered path, Module/Sub/Header.h is
\* credited by 1 by the same-directory match, and the resolution prints the
\* valid-relative-path note and nothing else.
C8_SameDirectoryUnlessAbsolute ==
    [][(pc = "process" /\ C8_Case /\ ~HasKey(headers_local, "Header.h"))
       => /\ headers_local' = Incr(headers_local, "Module/Sub/Header.h")
          /\ is_found'
          /\ Len(out') = 1
          /\ LastTagged(out', "ok-relative")]_vars

\* the directive of C8 has been resolved in a tree with other headers
C8_Witness ==
    /\ pc = "format"
    /\ C8_Case
    /\ Len(headers_local) >= 2
    /\ Count(headers_local, "Module/Sub/Header.h") = 1

\* an angle-bracket include of a bare path with no candidate
C9_Case == style = "<" /\ ~StartsWith(header, ".") /\ CandidateSet = {}

\* C9: processing and style-checking an angle-bracket include of a bare path with an
\* empty candidate set changes no count and prints at most one line, the
\* external-header note.
C9_ExternalAngleIsSilent ==
    [][(pc \in {"process", "format"} /\ C9_Case)
       => /\ headers_local' = headers_local
          /\ ~is_found'
          /\ Len(out') <= 1
          /\ \A i \in 1..Len(out') : HasTag(out'[i], "ok-external")]_vars

\* <vector> has been processed and style-checked in a tree with headers
C9_Witness ==
    /\ pc = "lines"
    /\ C9_Case
    /\ header = "vector"
    /\ Len(headers_local) > 0
    /\ Len(out) = 1

\* C10: every diagnostic line has the shape <file>:<line>: <message> [<tag>], ending
\* with the tag between an opening and a closing square bracket.
C10_EveryLineWellFormed == \A i \in 1..Len(out) : WellFormed(out[i])


\* str(path) of a file of the tree
TreePath(f) == PathJoin(PathOf(dir_base.arg), f)

\* C11: the walk of run() is sorted: the file it opens comes, in the order of paths,
\* before every file it has not walked yet, so that the order of the diagnostics does
\* not depend on the order in which the directory entries are enumerated.
C11_WalkIsSorted ==
    [][(pc = "walk" /\ pc' = "lines")
       => \A g \in todo' : PathLess(path', TreePath(g))]_vars

\* the header an unused-report line is about: the text before the first colon
UnusedHeader(line) == SubSeq(line, 1, Find(line, ":", 1) - 1)

\* C12: the unused report lists the headers in lexicographic order of their paths,
\* whatever order the directory scan that built the registry enumerated them in.
C12_UnusedReportSorted ==
    pc = "done" =>
        \A i, j \in 1..Len(out) :
            i < j => StrLess(UnusedHeader(out[i]), UnusedHeader(out[j]))

\* the entries of the registry whose count the step changes
Changed == {i \in 1..Len(headers_local) : headers_local'[i].n # headers_local[i].n}

\* C13: processing one directive changes the registry by at most one increment of one
\* entry, and the directive is found after __process_include exactly when one entry
\* was incremented by 1 in that call.
C13_OneCreditIffFound ==
    [][pc = "process"
       => /\ Keys(headers_local') = Keys(headers_local)
          /\ Cardinality(Changed) <= 1
          /\ \A i \in Changed : headers_local'[i].n = headers_local[i].n + 1
          /\ is_found' <=> Cardinality(Changed) = 1
          /\ pc' = "format"]_vars

\* a directive has been found in a tree of several headers: one entry was credited
C13_Witness ==
    /\ pc = "format"
    /\ is_found
    /\ Len(headers_local) >= 2
    /\ Cardinality({i \in 1..Len(headers_local) : headers_local[i].n = 1}) = 1
    /\ Cardinality({i \in 1..Len(headers_local) : headers_local[i].n = 0}) = Len(headers_local) - 1

\* the outcomes that end the resolution of a directive without a match
HardFailureTags == {"suspicious-suffix", "not-found", "wrong-relative-path", "ambiguous"}

\* the resolution that printed lines ended with a hard failure
HardFailure(lines) == \E tag \in HardFailureTags : LastTagged(lines, tag)

\* C14: a suspicious-suffix, not-found, wrong-relative-path or ambiguous outcome leaves
\* every count unchanged and the directive not found, and ends the resolution of that
\* directive only: the style check is made for it next, and the walk is then back in
\* the loop over the lines of the file, with the files still to be walked untouched.
C14_HardFailureStopsDirectiveOnly ==
    [][/\ (pc = "process" /\ HardFailure(out'))
          => /\ headers_local' = headers_local
             /\ ~is_found'
             /\ pc' = "format"
             /\ todo' = todo
       /\ (pc = "format" /\ HardFailure(out))
          => /\ headers_local' = headers_local
             /\ ~is_found'
             /\ pc' = "lines"
             /\ todo' = todo
             /\ (is_local /\ style = "<") => LastTagged(out', "wrong-format-local")
             /\ (~is_local /\ style = "\"") => LastTagged(out', "wrong-format-external")]_vars

\* a directive ended with a wrong relative path, its style was checked and found wrong,
\* and the walk is back in the loop with files still to be walked
C14_Witness ==
    /\ pc = "lines"
    /\ AnyTagged(out, "wrong-relative-path")
    /\ LastTagged(out, "wrong-format-local")
    /\ \A i \in 1..Len(headers_local) : headers_local[i].n = 0
    /\ todo # {}

\* the include text ends with the header suffix and starts with "."
ExplicitRelativeHeader == StartsWith(header, ".") /\ EndsWith(header, ".h")

\* the directive in hand is local: it has a candidate, or it is explicitly relative
\* with the header suffix
LocalDirective == CandidateSet # {} \/ ExplicitRelativeHeader

\* the lines the step adds to those printed for the directive
Added == SubSeq(out', Len(out) + 1, Len(out'))

\* C15: whatever the resolution found, the style check prints wrong-format-local
\* exactly when the directive is local and in angle brackets, and
\* wrong-format-external exactly when it is not local and quoted, where local means
\* that the candidate set is not empty or the directive is explicitly relative with
\* the header suffix.
C15_StyleFollowsLocality ==
    [][pc = "format"
       => /\ is_local <=> LocalDirective
          /\ AnyTagged(Added, "wrong-format-local") <=> (LocalDirective /\ style = "<")
          /\ AnyTagged(Added, "wrong-format-external") <=> (~LocalDirective /\ style = "\"")
          /\ Len(Added) <= 1]_vars

\* an explicitly relative directive in angle brackets that was not found has been
\* style-checked as a local one
C15_Witness ==
    /\ pc = "lines"
    /\ ExplicitRelativeHeader
    /\ style = "<"
    /\ ~is_found
    /\ CandidateSet = {}
    /\ LastTagged(out, "wrong-format-local")

\* the header name of the CMakeLists.txt line that is handled next
Token == Head(matches)

\* the directory of the open CMakeLists.txt, relative to the base directory
CMakeDirLocal == Parent(RemovePrefix(path_cmake_lists, path_dir_base(dir_base)))

\* the project-relative path the token names when it is read from the directory of
\* the CMakeLists.txt: joined as written, and normalised when the token starts with "."
TokenFromCMakeDir ==
    LET joined == IF CMakeDirLocal = "." THEN Token ELSE CMakeDirLocal \o "/" \o Token
    IN IF StartsWith(Token, ".") THEN Join(Collapse(<<>>, PartsOf(joined))) ELSE joined

\* C16 as stated: a token that does not start with "." credits the entry whose path is
\* the token itself, whatever the directory of the CMakeLists.txt, and no other entry.
C16_Original ==
    [][(pc = "tokens" /\ ~StartsWith(Token, "."))
       => IF HasKey(headers_local, Token)
          THEN headers_local' = Incr(headers_local, Token)
          ELSE headers_local' = headers_local]_vars

\* C16 amended: every token, starting with "." or not, is read from the directory of
\* the CMakeLists.txt it is in (a plain token joined as written, a token starting
\* with "." normalised); it credits the entry with that project-relative path once,
\* with a compiled note, and nothing when there is no such entry.
C16_TokenFromCMakeDir ==
    [][pc = "tokens"
       => IF HasKey(headers_local, TokenFromCMakeDir)
          THEN /\ headers_local' = Incr(headers_local, TokenFromCMakeDir)
               /\ Len(out') = 1
               /\ LastTagged(out', "compiled")
          ELSE /\ headers_local' = headers_local
               /\ out' = <<>>]_vars

\* the token X.h of A/CMakeLists.txt has credited A/X.h
C16_Witness ==
    /\ pc \in {"tokens", "cmake_lines"}
    /\ header = "X.h"
    /\ CMakeDirLocal = "A"
    /\ LastTagged(out, "compiled")
    /\ Count(headers_local, "A/X.h") >= 1

\* the directory is inside the base directory: neither the base directory nor a
\* directory above it
InsideBase(d) ==
    LET b == PathOf(dir_base.arg) IN d # b /\ d \notin Range(Parents(b))

\* the ancestors of the directory of the including file that are inside the base
\* directory, nearest first
AncestorsInside == SelectSeq(Parents(Parent(path)), InsideBase)

\* the include text of the directive in hand, looked up from a directory
LookedUpFrom(d) == LocalPath(d, header, StartsWith(header, "."), dir_base)

\* the lookup from the directory gives a candidate
GivesCandidate(d) == LookedUpFrom(d) \in CandidateSet

\* the header that the last line printed for the directive names after " to "
Target(lines) == NamedTarget(lines[Len(lines)], header)

\* C17: the ancestor-directory match looks the include up from the ancestors of the
\* directory of the including file that are inside the base directory only, nearest
\* first: an incomplete-relative-path outcome credits the lookup from the nearest such
\* ancestor that gives a candidate, and the path a wrong-relative-path outcome names
\* is a lookup from the directory of the file or from an ancestor inside the base
\* directory, never from the base directory or a directory above it.
C17_AncestorsStopBeforeBase ==
    [][pc = "process"
       => /\ LastTagged(out', "incomplete-relative-path")
             => /\ SelectSeq(AncestorsInside, GivesCandidate) # <<>>
                /\ Target(out') = LookedUpFrom(SelectSeq(AncestorsInside, GivesCandidate)[1])
                /\ headers_local' = Incr(headers_local, Target(out'))
          /\ LastTagged(out', "wrong-relative-path")
             => Target(out') \in {LookedUpFrom(d) : d \in {Parent(path)} \cup Range(AncestorsInside)}]_vars

\* C18: no call of __process_include reaches the unhandled-case print: no line with
\* the tag error-exception is ever printed, whatever the registry, the including file
\* and the directive.
C18_NoUnhandledCase == ~AnyTagged(out, "error-exception")

\* a directive went down to the last step: several candidates and a best one
C18_Witness ==
    /\ pc = "format"
    /\ AnyTagged(out, "best-candidate")
    /\ LastTagged(out, "incomplete-absolute-path")
    /\ Cardinality(CandidateSet) >= 2

=============================================================================
